---- MODULE Spec2Model ----
(***************************************************************************)
(* A model of the causify-ai/tutorials helpers:                            *)
(*   - tutorial_github/utils.py: GitHubAPI, the metrics stubs,             *)
(*     get_repo_names and get_github_contributors;                         *)
(*   - tutorial_asana/tutorial_asana.py: the notebook's cells, run top to  *)
(*     bottom (token check, fetch of tasks and comments, statistics, the   *)
(*     per-user aggregation).                                              *)
(* One run executes one of the two programs (prog).  The vendor SDKs are   *)
(* the environment: what a network call answers is drawn from small sets.  *)
(***************************************************************************)
EXTENDS Integers, Sequences, FiniteSets, TLC

VARIABLES
    prog,            \* which program this run executes: "github", "asana" or "markdown"
    environ_token,   \* os.environ: GITHUB_ACCESS_TOKEN / ASANA_ACCESS_TOKEN
    pc,              \* position of the running program
    call,            \* the call in progress or last completed, with its arguments
    raised,          \* the exception that escaped to the caller ("none" if none)
    ret,             \* the value the last completed call returned
    net,             \* the network calls issued so far, in order, with their answers
    log,             \* records written through _LOG.error
    \* tutorial_github/utils.py
    github,          \* GitHubAPI.github, the client handle
    answers,         \* what the upstream answers to the call in progress
    idx,             \* loop position in get_github_contributors
    result,          \* the dict get_github_contributors builds
    \* tutorial_asana/tutorial_asana.py: the upstream workspace and the notebook's globals
    asana_tasks,
    config,
    token,
    client,
    created_tasks_df,
    completed_tasks_df,
    created_tasks_comments_df,
    completed_tasks_comments_df,
    stats,
    tasks_created_by_user,
    user_cell_out,
    stats_out,       \* what the statistics cell printed
    runs,
    summary_before,
    \* DATA605/project_description.py
    md_df,           \* the table read from the Google sheet
    md_file,         \* what DATA605_Projects.md holds, one entry per write
    md_idx,          \* loop position in create_markdown_file
    md_description   \* the local `description` of the loop body

gh_vars == <<github, answers, idx, result>>
nb_vars == <<asana_tasks, config, token, client, created_tasks_df, completed_tasks_df,
             created_tasks_comments_df, completed_tasks_comments_df, stats,
             tasks_created_by_user, user_cell_out, stats_out, runs,
                   summary_before>>
md_vars == <<md_df, md_file, md_idx, md_description>>
vars == <<prog, environ_token, pc, call, raised, ret, net, log, gh_vars, nb_vars, md_vars>>

(***************************************************************************)
(* Bounds of the model.                                                    *)
(***************************************************************************)
MaxRepoNames == 3      \* longest repo_names list passed to get_github_contributors
MaxTime == 2           \* timestamps are 0..MaxTime
MaxRuns == 2           \* times the notebook is run in one kernel
MaxTasks == 2          \* tasks in the upstream Asana project

(***************************************************************************)
(* Python values.                                                          *)
(***************************************************************************)
None == "None"
\* bool(x) of an Optional[str]: None and "" are falsy.
Truthy(x) == x # None /\ x # ""
\* a or b
OrElse(a, b) == IF Truthy(a) THEN a ELSE b

TokenValues == {None, "", "tok"}
BaseUrls == {None, "https://ghe.example/api/v3"}
DefaultBaseUrl == "https://api.github.com"

PyNone == [kind |-> "None", value |-> <<>>]
PyDict(d) == [kind |-> "dict", value |-> d]
Unset == [kind |-> "unset", value |-> <<>>]

EmptyDict == [k \in {} |-> <<>>]
\* d[k] = v
DictSet(d, k, v) == [x \in DOMAIN d \cup {k} |-> IF x = k THEN v ELSE d[x]]

SeqsUpTo(S, n) == UNION {[1..k -> S] : k \in 0..n}

NoDf == [cols |-> {}, rows |-> <<>>]
Unbound == [bound |-> FALSE, counts |-> EmptyDict]

NoCall == [fn |-> "none", token |-> None, names |-> <<>>, actors |-> <<>>,
           period |-> <<>>]

(***************************************************************************)
(* tutorial_github/utils.py                                                *)
(***************************************************************************)
Repos == {"o/a", "o/b", "o/c"}
LoginLists == {<<>>, <<"alice">>}
Owners == {"causify-ai", "gpsaggese"}
RepoLists == {<<>>, <<"tutorials">>, <<"tutorials", "helpers">>}

\* The exceptions an SDK call can raise (all are subclasses of Exception).
UpstreamErrors == {"not_found", "rate_limit"}
Outcomes == {"ok"} \cup UpstreamErrors

NoClient == [access_token |-> None, base_url |-> None]

\* `if not self.access_token`
TokenMissing_isNone(tok) == tok = None
TokenMissing(tok) == ~Truthy(tok)

\* GitHubAPI.__init__
GitHubAPI_init(access_token, base_url) ==
    /\ prog = "github"
    /\ pc = "start"
    /\ call' = [NoCall EXCEPT !.fn = "GitHubAPI.__init__", !.token = access_token]
    /\ LET tok == OrElse(access_token, environ_token) IN
         IF TokenMissing(tok)
         THEN /\ raised' = "ValueError"
              /\ github' = NoClient
              /\ pc' = "raised"
         ELSE /\ raised' = "none"
              /\ github' = [access_token |-> tok,
                            base_url |-> IF Truthy(base_url) THEN base_url
                                         ELSE DefaultBaseUrl]
              /\ pc' = "ready"
    /\ UNCHANGED <<prog, environ_token, md_vars, ret, net, log, answers, idx, result, nb_vars>>

\* The metrics stubs: the body is `pass`, so the call returns None, raises
\* nothing and issues no network call, whatever its arguments.
Periods == {<<>>} \cup {<<s, e>> : s, e \in 0..MaxTime}
NameLists == {<<>>, <<"alice">>}

\* What the upstream holds for the repositories of a metrics call: entities
\* (commits, pull requests) with the GitHub user that made them and when.
Entities == [actor : {"alice", "bob"}, at : 0..MaxTime]
UpstreamEntities == {{}} \cup {{c} : c \in Entities}

MetricsStub(fn, github_name, period, repo_name) ==
    /\ prog = "github"
    /\ pc = "ready"
    /\ call' = [NoCall EXCEPT !.fn = fn, !.names = repo_name,
                              !.actors = github_name, !.period = period]
    /\ answers' \in UpstreamEntities
    /\ ret' = PyNone
    /\ raised' = "none"
    /\ pc' = "done"
    /\ UNCHANGED <<prog, environ_token, md_vars, net, log, github, idx, result, nb_vars>>

get_total_commits ==
    pc = "ready" /\ \E github_name \in NameLists, period \in Periods, repo_name \in SeqsUpTo(Repos, 1) :
        MetricsStub("get_total_commits", github_name, period, repo_name)

get_total_prs ==
    pc = "ready" /\ \E github_name \in NameLists, period \in Periods, repo_name \in SeqsUpTo(Repos, 1) :
        MetricsStub("get_total_prs", github_name, period, repo_name)

\* github_name is one user name (a str), held as a one-element list.
get_commits_by_person ==
    pc = "ready" /\ \E github_name \in NameLists \ {<<>>}, period \in Periods, repo_name \in SeqsUpTo(Repos, 1) :
        MetricsStub("get_commits_by_person", github_name, period, repo_name)

\* get_repo_names: org, user are what get_organization and get_user answer,
\* repos what iterating owner.get_repos() answers.
RepoAnswers == {[out |-> "rate_limit", names |-> <<>>]}
                   \cup {[out |-> "ok", names |-> l] : l \in RepoLists}

\* The lookups issued: get_organization, and get_user in its except branch.
OwnerLookups(org_or_user_name, org, user) ==
    IF org = "ok"
    THEN <<[op |-> "get_organization", arg |-> org_or_user_name, out |-> org]>>
    ELSE <<[op |-> "get_organization", arg |-> org_or_user_name, out |-> org],
           [op |-> "get_user", arg |-> org_or_user_name, out |-> user]>>

\* An owner is bound unless both lookups raise.
OwnerFound_orgOnly(org, user) == org = "ok"
OwnerFound(org, user) == org = "ok" \/ user = "ok"

get_repo_names(org_or_user_name, org, user, repos) ==
    /\ prog = "github"
    /\ pc = "ready"
    /\ call' = [NoCall EXCEPT !.fn = "get_repo_names", !.names = <<org_or_user_name>>]
    /\ answers' = [org |-> org, user |-> user, repos |-> repos]
    /\ LET lookups == OwnerLookups(org_or_user_name, org, user)
           found == OwnerFound(org, user)
       IN IF ~found
          THEN /\ raised' = "ValueError"
               /\ ret' = Unset
               /\ net' = net \o lookups
               /\ pc' = "raised"
          ELSE /\ net' = net \o lookups
                          \o <<[op |-> "get_repos", arg |-> org_or_user_name, out |-> repos.out]>>
               /\ IF repos.out = "ok"
                  THEN /\ raised' = "none"
                       /\ ret' = PyDict([owner |-> org_or_user_name,
                                         repositories |-> repos.names])
                       /\ pc' = "done"
                  ELSE /\ raised' = repos.out
                       /\ ret' = Unset
                       /\ pc' = "raised"
    /\ UNCHANGED <<prog, environ_token, md_vars, log, github, idx, result, nb_vars>>

\* get_github_contributors.  An answer is what the upstream does for one
\* element of repo_names: get_repo fails, or succeeds and then listing the
\* contributors fails or yields logins.
ContribAnswers ==
    {[get_repo |-> e, get_contributors |-> "n/a", logins |-> <<>>] : e \in UpstreamErrors}
    \cup {[get_repo |-> "ok", get_contributors |-> "rate_limit", logins |-> <<>>]}
    \cup {[get_repo |-> "ok", get_contributors |-> "ok", logins |-> l] : l \in LoginLists}

\* The error, if any, the try body raises for an answer.
AnswerError(a) ==
    IF a.get_repo # "ok" THEN a.get_repo
    ELSE IF a.get_contributors # "ok" THEN a.get_contributors
    ELSE "none"

\* The network calls the try body issues for an answer.
AnswerCalls(name, a) ==
    IF a.get_repo # "ok"
    THEN <<[op |-> "get_repo", arg |-> name, out |-> a.get_repo]>>
    ELSE <<[op |-> "get_repo", arg |-> name, out |-> "ok"],
           [op |-> "get_contributors", arg |-> name, out |-> a.get_contributors]>>

\* `except Exception as e`: every upstream error is caught.
Catches_none(e) == FALSE
Catches(e) == e \in UpstreamErrors

\* result[repo_name] = [] in the except branch.
OnFetchError_noEntry(res, repo_name) == res
OnFetchError(res, repo_name) == DictSet(res, repo_name, <<>>)

\* result = {}
contributors_begin(repo_names, ans) ==
    /\ prog = "github"
    /\ pc = "ready"
    /\ call' = [NoCall EXCEPT !.fn = "get_github_contributors", !.names = repo_names]
    /\ answers' = ans
    /\ result' = EmptyDict
    /\ idx' = 1
    /\ raised' = "none"
    /\ ret' = Unset
    /\ pc' = "contributors_loop"
    /\ UNCHANGED <<prog, environ_token, md_vars, net, log, github, nb_vars>>

\* One iteration of `for repo_name in repo_names`.
contributors_step ==
    /\ pc = "contributors_loop"
    /\ idx <= Len(call.names)
    /\ LET repo_name == call.names[idx]
           a == answers[idx]
           e == AnswerError(a)
       IN /\ net' = net \o AnswerCalls(repo_name, a)
          /\ IF e = "none"
             THEN /\ result' = DictSet(result, repo_name, a.logins)
                  /\ UNCHANGED <<log, raised, pc>>
             ELSE IF Catches(e)
             THEN /\ log' = Append(log, [level |-> "ERROR", repo |-> repo_name, exc |-> e])
                  /\ result' = OnFetchError(result, repo_name)
                  /\ UNCHANGED <<raised, pc>>
             ELSE /\ raised' = e
                  /\ pc' = "raised"
                  /\ UNCHANGED <<log, result>>
    /\ idx' = idx + 1
    /\ UNCHANGED <<prog, environ_token, md_vars, call, ret, github, answers, nb_vars>>

\* return result
contributors_return ==
    /\ pc = "contributors_loop"
    /\ idx > Len(call.names)
    /\ ret' = PyDict(result)
    /\ pc' = "done"
    /\ UNCHANGED <<prog, environ_token, md_vars, call, raised, net, log, gh_vars, nb_vars>>

get_github_contributors ==
    \/ /\ pc = "ready"
       /\ \E repo_names \in SeqsUpTo(Repos, MaxRepoNames) :
              \E ans \in [1..Len(repo_names) -> ContribAnswers] :
                  contributors_begin(repo_names, ans)
    \/ contributors_step
    \/ contributors_return

NextGitHub ==
    \/ \E access_token \in TokenValues, base_url \in BaseUrls :
           GitHubAPI_init(access_token, base_url)
    \/ get_total_commits
    \/ get_total_prs
    \/ get_commits_by_person
    \/ /\ pc = "ready"
       /\ \E name \in Owners, org, user \in Outcomes, repos \in RepoAnswers :
              get_repo_names(name, org, user, repos)
    \/ get_github_contributors

(***************************************************************************)
(* tutorial_asana/tutorial_asana.py.  Time is counted in periods of        *)
(* timedelta(days=7), so the configured window is one period long.         *)
(***************************************************************************)
one_week == 1
Times == 0..MaxTime
\* An Optional timestamp: <<>> is None (completed_at of an open task).
NoTime == <<>>
OptionalTimes == {NoTime} \cup {<<t>> : t \in Times}
\* Task ids are strings and compare as strings: "10" < "2".
TaskIds == {"10", "2"}
IdRank(id) == IF id = "10" THEN 1 ELSE 2
Assignees == {None, "alice", "bob"}
StoryCounts == {0, 1}

\* A task of the upstream project, with the number of stories attached to it.
Tasks ==
    {t \in [task_id : TaskIds, assignee : Assignees, created_at : Times,
            completed_at : OptionalTimes, stories : StoryCounts] :
        t.completed_at # NoTime => t.completed_at[1] >= t.created_at}
\* A project holds at most MaxTasks tasks, with distinct ids.
RECURSIVE ProjectsOfSize(_)
ProjectsOfSize(n) ==
    IF n = 0 THEN {{}}
    ELSE UNION {{P \cup {t} : t \in {u \in Tasks :
                                        \A v \in P : IdRank(v.task_id) < IdRank(u.task_id)}} :
                P \in ProjectsOfSize(n - 1)}
Projects == UNION {ProjectsOfSize(n) : n \in 0..MaxTasks}

TaskColumns == {"task_id", "assignee", "created_at", "completed_at"}
CommentColumns == {"task_id", "comment_author"}
\* The row get_tasks_by_date_range reports for a task.
TaskRow(t) == [task_id |-> t.task_id, assignee |-> t.assignee,
               created_at |-> t.created_at, completed_at |-> t.completed_at]

\* df.empty
Empty(df) == df.cols = {} \/ Len(df.rows) = 0

\* Ascending by created_at, ties broken by the identifier compared as a string.
RowBefore(a, b) ==
    \/ a.created_at < b.created_at
    \/ a.created_at = b.created_at /\ IdRank(a.task_id) < IdRank(b.task_id)

RECURSIVE SortedRows(_)
SortedRows(S) ==
    IF S = {} THEN <<>>
    ELSE LET first == CHOOSE a \in S : \A b \in S \ {a} : RowBefore(a, b)
         IN <<first>> \o SortedRows(S \ {first})

\* The relevant timestamp of a query: created_at for "created", completed_at
\* for "completed".
Stamp(t, status) == IF status = "created" THEN <<t.created_at>> ELSE t.completed_at

\* The half-open window [start, end).
InWindow_closed(stamp, start, end) ==
    stamp # NoTime /\ start <= stamp[1] /\ stamp[1] <= end
InWindow(stamp, start, end) ==
    stamp # NoTime /\ start <= stamp[1] /\ stamp[1] < end

\* get_tasks_by_date_range(client, project_id, start_date, end_date, status)
get_tasks_by_date_range(project, start, end, status) ==
    IF start > end
    THEN [error |-> "ValidationError", df |-> NoDf]
    ELSE [error |-> "none",
          df |-> [cols |-> TaskColumns,
                  rows |-> SortedRows({TaskRow(t) : t \in
                              {u \in project : InWindow(Stamp(u, status), start, end)}})]]

\* df["task_id"].tolist() if not df.empty else []
TaskIdList(df) == IF Empty(df) THEN <<>> ELSE [i \in 1..Len(df.rows) |-> df.rows[i].task_id]

\* get_task_comments(client, task_ids): one row per story of each task, in
\* the order of task_ids.
RECURSIVE CommentRows(_, _)
CommentRows(project, ids) ==
    IF ids = <<>> THEN <<>>
    ELSE LET n == IF \E t \in project : t.task_id = Head(ids)
                  THEN (CHOOSE t \in project : t.task_id = Head(ids)).stories
                  ELSE 0
         IN [k \in 1..n |-> [task_id |-> Head(ids), comment_author |-> "alice"]]
                \o CommentRows(project, Tail(ids))

get_task_comments(project, ids) ==
    [cols |-> CommentColumns, rows |-> CommentRows(project, ids)]

\* The configuration cell: today and the week before it.
ConfigCell(today) ==
    /\ prog = "asana"
    /\ pc = "start"
    /\ today >= config.end_date
    /\ today - one_week >= 0
    /\ config' = [start_date |-> today - one_week, end_date |-> today]
    /\ raised' = "none"
    /\ pc' = "token"
    /\ UNCHANGED <<prog, environ_token, md_vars, call, ret, net, log, gh_vars, asana_tasks, token,
                   client, created_tasks_df, completed_tasks_df,
                   created_tasks_comments_df, completed_tasks_comments_df, stats,
                   tasks_created_by_user, user_cell_out, stats_out, runs,
                   summary_before>>

\* token = os.environ.get(...); if not token: raise EnvironmentError; client = AsanaClient(...)
TokenCell ==
    /\ prog = "asana"
    /\ pc = "token"
    /\ token' = environ_token
    /\ IF ~Truthy(environ_token)
       THEN /\ raised' = "EnvironmentError"
            /\ pc' = "raised"
            /\ UNCHANGED client
       ELSE /\ client' = environ_token
            /\ pc' = "fetch_created"
            /\ UNCHANGED raised
    /\ UNCHANGED <<prog, environ_token, md_vars, call, ret, net, log, gh_vars, asana_tasks, config,
                   created_tasks_df, completed_tasks_df, created_tasks_comments_df,
                   completed_tasks_comments_df, stats, tasks_created_by_user,
                   user_cell_out, stats_out, runs,
                   summary_before>>

\* created_tasks_df = get_tasks_by_date_range(..., status="created")
FetchCreated ==
    /\ prog = "asana"
    /\ pc = "fetch_created"
    /\ LET r == get_tasks_by_date_range(asana_tasks, config.start_date, config.end_date,
                                        "created")
       IN IF r.error # "none"
          THEN /\ raised' = r.error
               /\ pc' = "raised"
               /\ UNCHANGED <<created_tasks_df, net>>
          ELSE /\ created_tasks_df' = r.df
               /\ net' = Append(net, [op |-> "get_tasks", arg |-> "created", out |-> "ok"])
               /\ pc' = "fetch_completed"
               /\ UNCHANGED raised
    /\ UNCHANGED <<prog, environ_token, md_vars, call, ret, log, gh_vars, asana_tasks, config, token,
                   client, completed_tasks_df, created_tasks_comments_df,
                   completed_tasks_comments_df, stats, tasks_created_by_user,
                   user_cell_out, stats_out, runs,
                   summary_before>>

\* completed_tasks_df = get_tasks_by_date_range(..., status="completed")
FetchCompleted ==
    /\ prog = "asana"
    /\ pc = "fetch_completed"
    /\ LET r == get_tasks_by_date_range(asana_tasks, config.start_date, config.end_date,
                                        "completed")
       IN IF r.error # "none"
          THEN /\ raised' = r.error
               /\ pc' = "raised"
               /\ UNCHANGED <<completed_tasks_df, net>>
          ELSE /\ completed_tasks_df' = r.df
               /\ net' = Append(net, [op |-> "get_tasks", arg |-> "completed", out |-> "ok"])
               /\ pc' = "comments"
               /\ UNCHANGED raised
    /\ UNCHANGED <<prog, environ_token, md_vars, call, ret, log, gh_vars, asana_tasks, config, token,
                   client, created_tasks_df, created_tasks_comments_df,
                   completed_tasks_comments_df, stats, tasks_created_by_user,
                   user_cell_out, stats_out, runs,
                   summary_before>>

\* The comments cell: both get_task_comments calls.
FetchComments ==
    /\ prog = "asana"
    /\ pc = "comments"
    /\ created_tasks_comments_df' =
           get_task_comments(asana_tasks, TaskIdList(created_tasks_df))
    /\ completed_tasks_comments_df' =
           get_task_comments(asana_tasks, TaskIdList(completed_tasks_df))
    /\ net' = net \o <<[op |-> "get_stories", arg |-> "created", out |-> "ok"],
                       [op |-> "get_stories", arg |-> "completed", out |-> "ok"]>>
    /\ pc' = "stats"
    /\ UNCHANGED <<prog, environ_token, md_vars, call, raised, ret, log, gh_vars, asana_tasks, config,
                   token, client, created_tasks_df, completed_tasks_df, stats,
                   tasks_created_by_user, user_cell_out, stats_out, runs,
                   summary_before>>

\* The statistics cell: the four len() counts.
ComputeStats_early ==
    /\ prog = "asana"
    /\ pc \in {"comments", "stats"}
    /\ stats' = <<Len(created_tasks_df.rows), Len(completed_tasks_df.rows),
                  Len(created_tasks_comments_df.rows),
                  Len(completed_tasks_comments_df.rows)>>
    /\ pc' = "print_stats"
    /\ UNCHANGED <<prog, environ_token, md_vars, call, raised, ret, net, log, gh_vars, asana_tasks,
                   config, token, client, created_tasks_df, completed_tasks_df,
                   created_tasks_comments_df, completed_tasks_comments_df,
                   tasks_created_by_user, user_cell_out, stats_out, runs,
                   summary_before>>

ComputeStats ==
    /\ prog = "asana"
    /\ pc = "stats"
    /\ stats' = <<Len(created_tasks_df.rows), Len(completed_tasks_df.rows),
                  Len(created_tasks_comments_df.rows),
                  Len(completed_tasks_comments_df.rows)>>
    /\ pc' = "print_stats"
    /\ UNCHANGED <<prog, environ_token, md_vars, call, raised, ret, net, log, gh_vars, asana_tasks,
                   config, token, client, created_tasks_df, completed_tasks_df,
                   created_tasks_comments_df, completed_tasks_comments_df,
                   tasks_created_by_user, user_cell_out, stats_out, runs,
                   summary_before>>

\* The statistics cell: the four print() lines.
PrintStats ==
    /\ prog = "asana"
    /\ pc = "print_stats"
    /\ stats_out' = stats
    /\ pc' = "per_user"
    /\ UNCHANGED <<prog, environ_token, md_vars, call, raised, ret, net, log, gh_vars, asana_tasks,
                   config, token, client, created_tasks_df, completed_tasks_df,
                   created_tasks_comments_df, completed_tasks_comments_df, stats,
                   tasks_created_by_user, user_cell_out, runs, summary_before>>

\* `if not created_tasks_df.empty and "assignee" in created_tasks_df.columns`
GroupsByAssignee_noEmptyCheck(df) == "assignee" \in df.cols
GroupsByAssignee(df) == ~Empty(df) /\ "assignee" \in df.cols

\* df.groupby("assignee")["task_id"].count(): pandas drops the rows whose key
\* is null, and count() counts the non-null task_id of each group.
GroupbyCount(rows) ==
    [a \in {rows[i].assignee : i \in 1..Len(rows)} \ {None} |->
        Cardinality({i \in 1..Len(rows) :
                        rows[i].assignee = a /\ rows[i].task_id # None})]

\* The per-user cell.
TasksCreatedByUser ==
    /\ prog = "asana"
    /\ pc = "per_user"
    /\ summary_before' = tasks_created_by_user
    /\ IF GroupsByAssignee(created_tasks_df)
       THEN /\ tasks_created_by_user' =
                   [bound |-> TRUE, counts |-> GroupbyCount(created_tasks_df.rows)]
            /\ user_cell_out' = "table"
       ELSE /\ user_cell_out' = "notice"
            /\ UNCHANGED tasks_created_by_user
    /\ runs' = runs + 1
    /\ pc' = "done"
    /\ UNCHANGED <<prog, environ_token, md_vars, call, raised, ret, net, log, gh_vars, asana_tasks,
                   config, token, client, created_tasks_df, completed_tasks_df,
                   created_tasks_comments_df, completed_tasks_comments_df, stats,
                   stats_out>>

\* The notebook is run again, top to bottom, in the same kernel: its globals
\* keep the values the previous run left.
RunAgain ==
    /\ prog = "asana"
    /\ pc = "done"
    /\ runs < MaxRuns
    /\ pc' = "start"
    /\ net' = <<>>
    /\ UNCHANGED <<prog, environ_token, md_vars, call, raised, ret, log, gh_vars, nb_vars>>

NextAsana ==
    \/ \E today \in Times : ConfigCell(today)
    \/ TokenCell
    \/ FetchCreated
    \/ FetchCompleted
    \/ FetchComments
    \/ ComputeStats
    \/ PrintStats
    \/ TasksCreatedByUser
    \/ RunAgain

(***************************************************************************)
(* DATA605/project_description.py.  The file is the sequence of the chunks *)
(* written to it; a chunk is one md_file.write call.                       *)
(***************************************************************************)
MaxRows == 2

ProjectNames == {"Chatbot", "ETL"}
Difficulties == {"easy", "hard"}
SheetRows == [project_name : ProjectNames, difficulty : Difficulties]
Sheets == SeqsUpTo(SheetRows, MaxRows)

\* What hopenai.get_completion answers: a description, or it raises.
Descriptions == {"text1", "text2"}
CompletionAnswers == Descriptions \cup {"openai_error"}

Chunk(kind, text) == [kind |-> kind, text |-> text]
TitleChunk == Chunk("title", "# DATA605 Projects")

\* DATA605_Projects.md before the run: absent or empty, or left by an
\* earlier run.
FilesOnDisk == {<<>>, <<Chunk("stale", "old")>>}

\* df = read_google_sheet(GOOGLE_SHEET_URL)
read_google_sheet(df, out) ==
    /\ prog = "markdown"
    /\ pc = "start"
    /\ call' = [NoCall EXCEPT !.fn = "main"]
    /\ net' = Append(net, [op |-> "read_google_file", arg |-> "GOOGLE_SHEET_URL", out |-> out])
    /\ IF out = "ok"
       THEN /\ md_df' = df
            /\ pc' = "open"
            /\ UNCHANGED raised
       ELSE /\ raised' = out
            /\ pc' = "raised"
            /\ UNCHANGED md_df
    /\ UNCHANGED <<prog, environ_token, ret, log, gh_vars, nb_vars, md_file, md_idx,
                   md_description>>

\* open(markdown_file_path, "w") truncates the file.
Opened_append(content) == content
Opened(content) == <<>>

open_file ==
    /\ prog = "markdown"
    /\ pc = "open"
    /\ md_file' = Opened(md_file)
    /\ pc' = "header"
    /\ UNCHANGED <<prog, environ_token, call, raised, ret, net, log, gh_vars, nb_vars,
                   md_df, md_idx, md_description>>

\* md_file.write("# DATA605 Projects\n\n"), then the loop starts.
write_header ==
    /\ prog = "markdown"
    /\ pc = "header"
    /\ md_file' = Append(md_file, TitleChunk)
    /\ md_idx' = 1
    /\ pc' = "loop"
    /\ UNCHANGED <<prog, environ_token, call, raised, ret, net, log, gh_vars, nb_vars,
                   md_df, md_description>>

\* description = generate_project_description(project_name, difficulty) for
\* the row at md_idx; the prompt names the project and its difficulty.
generate_project_description(answer) ==
    /\ prog = "markdown"
    /\ pc = "loop"
    /\ md_idx <= Len(md_df)
    /\ net' = Append(net, [op |-> "get_completion", arg |-> md_df[md_idx], out |-> answer])
    /\ IF answer \in Descriptions
       THEN /\ md_description' = answer
            /\ pc' = "write"
            /\ UNCHANGED raised
       ELSE /\ raised' = answer
            /\ pc' = "raised"
            /\ UNCHANGED md_description
    /\ UNCHANGED <<prog, environ_token, call, ret, log, gh_vars, nb_vars, md_df, md_file,
                   md_idx>>

\* The three writes of the loop body.
Section(row, description) ==
    <<Chunk("heading", row.project_name),
      Chunk("difficulty", row.difficulty),
      Chunk("description", description)>>

write_section ==
    /\ prog = "markdown"
    /\ pc = "write"
    /\ md_file' = md_file \o Section(md_df[md_idx], md_description)
    /\ md_idx' = md_idx + 1
    /\ pc' = "loop"
    /\ UNCHANGED <<prog, environ_token, call, raised, ret, net, log, gh_vars, nb_vars,
                   md_df, md_description>>

\* The loop ends, the file is closed and main prints where it is.
main_return ==
    /\ prog = "markdown"
    /\ pc = "loop"
    /\ md_idx > Len(md_df)
    /\ ret' = PyNone
    /\ pc' = "done"
    /\ UNCHANGED <<prog, environ_token, call, raised, net, log, gh_vars, nb_vars, md_vars>>

create_markdown_file ==
    \/ open_file
    \/ write_header
    \/ \E answer \in CompletionAnswers : generate_project_description(answer)
    \/ write_section

NextMarkdown ==
    \/ /\ pc = "start"
       /\ \E df \in Sheets, out \in {"ok", "sheet_error"} : read_google_sheet(df, out)
    \/ create_markdown_file
    \/ main_return

(***************************************************************************)
(* The state after construction.                                           *)
(***************************************************************************)
InitCommon ==
    /\ environ_token \in TokenValues
    /\ pc = "start"
    /\ call = NoCall
    /\ raised = "none"
    /\ ret = Unset
    /\ net = <<>>
    /\ log = <<>>
    /\ github = NoClient
    /\ answers = <<>>
    /\ idx = 0
    /\ result = EmptyDict
    /\ config = [start_date |-> 0, end_date |-> 0]
    /\ token = None
    /\ client = None
    /\ created_tasks_df = NoDf
    /\ completed_tasks_df = NoDf
    /\ created_tasks_comments_df = NoDf
    /\ completed_tasks_comments_df = NoDf
    /\ stats = <<>>
    /\ tasks_created_by_user = Unbound
    /\ user_cell_out = "none"
    /\ stats_out = <<>>
    /\ runs = 0
    /\ summary_before = Unbound
    /\ md_df = <<>>
    /\ md_idx = 0
    /\ md_description = None

InitGitHub == prog = "github" /\ asana_tasks = {} /\ md_file = <<>> /\ InitCommon
InitAsana == prog = "asana" /\ asana_tasks \in Projects /\ md_file = <<>> /\ InitCommon
InitMarkdown == prog = "markdown" /\ asana_tasks = {} /\ md_file \in FilesOnDisk /\ InitCommon
Init == InitGitHub \/ InitAsana \/ InitMarkdown

Next == NextGitHub \/ NextAsana \/ NextMarkdown

SpecGitHub == InitGitHub /\ [][NextGitHub]_vars
SpecAsana == InitAsana /\ [][NextAsana]_vars
SpecMarkdown == InitMarkdown /\ [][NextMarkdown]_vars
Spec == Init /\ [][Next]_vars

(***************************************************************************)
(* The claims.                                                             *)
(***************************************************************************)
RowStamp(row, status) == IF status = "created" THEN <<row.created_at>> ELSE row.completed_at

\* Every row of df is stamped inside [start_date, end_date) of the configuration,
\* and every upstream task stamped exactly start_date is a row of df.
FetchedWithinWindow(df, status) ==
    /\ \A i \in 1..Len(df.rows) :
          LET st == RowStamp(df.rows[i], status)
          IN /\ st # NoTime
             /\ ~(st[1] < config.start_date)
             /\ ~(st[1] >= config.end_date)
    /\ \A t \in asana_tasks :
          (Stamp(t, status) = <<config.start_date>> /\ config.start_date < config.end_date)
              => \E i \in 1..Len(df.rows) : df.rows[i].task_id = t.task_id

AfterFetchCompleted == {"comments", "stats", "print_stats", "per_user", "done"}
AfterFetchCreated == {"fetch_completed"} \cup AfterFetchCompleted

\* C1: get_tasks_by_date_range never returns a task whose relevant timestamp
\* (created_at for "created", completed_at for "completed") is earlier than the
\* window's start or equal to or later than its end; a task stamped exactly at
\* the start is returned.
C1_FetchWithinHalfOpenWindow ==
    /\ (prog = "asana" /\ pc \in AfterFetchCreated)
           => FetchedWithinWindow(created_tasks_df, "created")
    /\ (prog = "asana" /\ pc \in AfterFetchCompleted)
           => FetchedWithinWindow(completed_tasks_df, "completed")

\* A run whose fetch kept a task created exactly at the start, kept a task
\* completed exactly at the start, and left out a task created exactly at the end.
C1_Witness ==
    /\ pc = "done"
    /\ \E i \in 1..Len(created_tasks_df.rows) :
           created_tasks_df.rows[i].created_at = config.start_date
    /\ \E i \in 1..Len(completed_tasks_df.rows) :
           completed_tasks_df.rows[i].completed_at = <<config.start_date>>
    /\ \E t \in asana_tasks :
           /\ t.created_at = config.end_date
           /\ \A i \in 1..Len(created_tasks_df.rows) :
                  created_tasks_df.rows[i].task_id # t.task_id

IsContributorsCall == prog = "github" /\ call.fn = "get_github_contributors"
LastOccurrence(i) == \A j \in (i + 1)..Len(call.names) : call.names[j] # call.names[i]
OnlyMissingReposFail ==
    \A i \in 1..Len(call.names) : AnswerError(answers[i]) \in {"none", "not_found"}

\* C2: a repository of the batch that cannot be found never makes
\* get_github_contributors raise: every name of the list is still looked up, a
\* found one maps to its contributors' logins, and a missing one maps to no
\* results and has an ERROR record in the log.
C2_MissingRepoDoesNotAbortBatch ==
    /\ (IsContributorsCall /\ OnlyMissingReposFail)
           => raised = "none" /\ pc # "raised"
    /\ (IsContributorsCall /\ pc = "done") =>
           /\ ret.kind = "dict"
           /\ \A i \in 1..Len(call.names) :
                  LET name == call.names[i]
                      a == answers[i]
                  IN /\ \E k \in 1..Len(net) :
                            net[k].op = "get_repo" /\ net[k].arg = name
                     /\ name \in DOMAIN ret.value
                     /\ (AnswerError(a) = "none" /\ LastOccurrence(i))
                            => ret.value[name] = a.logins
                     /\ AnswerError(a) = "not_found" =>
                            /\ \E k \in 1..Len(log) :
                                   /\ log[k].level = "ERROR"
                                   /\ log[k].repo = name
                                   /\ log[k].exc = "not_found"
                            /\ LastOccurrence(i) => ret.value[name] = <<>>

\* A completed batch of three distinct repositories, one missing and two found
\* with contributors.
C2_Witness ==
    /\ IsContributorsCall
    /\ pc = "done"
    /\ Len(call.names) = 3
    /\ Cardinality({call.names[i] : i \in 1..3}) = 3
    /\ Cardinality({i \in 1..3 : AnswerError(answers[i]) = "not_found"}) = 1
    /\ Cardinality({i \in 1..3 : AnswerError(answers[i]) = "none"
                                    /\ answers[i].logins # <<>>}) = 2

RECURSIVE SumCounts(_, _)
SumCounts(counts, keys) ==
    IF keys = {} THEN 0
    ELSE LET k == CHOOSE x \in keys : TRUE
         IN counts[k] + SumCounts(counts, keys \ {k})

NullActorRows(rows) == {i \in 1..Len(rows) : rows[i].assignee = None}
PerUserCellGrouped == prog = "asana" /\ pc = "done" /\ user_cell_out = "table"

\* C3 (as claimed): the tasks with no assignee are counted under "unassigned",
\* and that count is the number of such tasks.
C3_NullActorsCountedAsUnassigned ==
    (PerUserCellGrouped /\ NullActorRows(created_tasks_df.rows) # {}) =>
        /\ "unassigned" \in DOMAIN tasks_created_by_user.counts
        /\ tasks_created_by_user.counts["unassigned"]
               = Cardinality(NullActorRows(created_tasks_df.rows))

\* C4 (as claimed): the counts of tasks_created_by_user sum to the number of
\* tasks in created_tasks_df, and no key has a zero count.
C4_CountsSumToEntities ==
    PerUserCellGrouped =>
        /\ SumCounts(tasks_created_by_user.counts, DOMAIN tasks_created_by_user.counts)
               = Len(created_tasks_df.rows)
        /\ \A k \in DOMAIN tasks_created_by_user.counts :
               tasks_created_by_user.counts[k] > 0

IsInitCall == prog = "github" /\ call.fn = "GitHubAPI.__init__"

\* C5 (as claimed): GitHubAPI(access_token) with an empty or missing
\* access_token raises and yields no client; a client exists only when a
\* non-empty access_token was passed.
C5_TokenArgumentRequired ==
    IsInitCall =>
        /\ ~Truthy(call.token) => (raised = "ValueError" /\ github = NoClient)
        /\ github # NoClient => Truthy(call.token)

\* C5 (amended): GitHubAPI raises ValueError and yields no client exactly when
\* both the access_token argument and GITHUB_ACCESS_TOKEN are empty or missing;
\* the notebook raises EnvironmentError and creates no client when
\* ASANA_ACCESS_TOKEN is empty or missing.  A client always holds a non-empty
\* token.
C5_TokenFromArgumentOrEnvironment ==
    /\ IsInitCall =>
           /\ (~Truthy(call.token) /\ ~Truthy(environ_token))
                  => (raised = "ValueError" /\ github = NoClient /\ pc = "raised")
           /\ github # NoClient
                  => /\ Truthy(call.token) \/ Truthy(environ_token)
                     /\ Truthy(github.access_token)
                     /\ raised = "none"
    /\ (prog = "asana" /\ ~Truthy(environ_token)) =>
           /\ client = None
           /\ pc \in {"start", "token", "raised"}
           /\ pc = "raised" => raised = "EnvironmentError"
    /\ (prog = "asana" /\ client # None) => Truthy(client)
    /\ (prog = "github" /\ github # NoClient) => Truthy(github.access_token)

\* A constructor call with no token in the argument nor in the environment,
\* which raised.
C5_Witness ==
    /\ IsInitCall
    /\ ~Truthy(call.token)
    /\ ~Truthy(environ_token)
    /\ raised = "ValueError"

SawRateLimit == \E k \in 1..Len(net) : net[k].out = "rate_limit"

\* C6 (as claimed): a fetch during which the upstream signalled throttling ends
\* with the rate-limit error raised to the caller, never with a normal return
\* or another error.
C6_RateLimitReachesCaller ==
    (prog = "github" /\ call.fn \in {"get_github_contributors", "get_repo_names"}
        /\ pc \in {"done", "raised"} /\ SawRateLimit)
        => (pc = "raised" /\ raised = "rate_limit")

IsSortedRows(rows) ==
    \A i, j \in 1..Len(rows) : i < j => RowBefore(rows[i], rows[j])

\* C7 (as claimed): get_total_prs returns a list sorted ascending by created_at,
\* ties broken by identifier.
C7_ReturnsSortedList ==
    (prog = "github" /\ call.fn = "get_total_prs" /\ pc = "done")
        => (ret.kind = "list" /\ IsSortedRows(ret.value))

\* C8 (as claimed): get_total_commits with a period whose start is after its
\* end raises a validation error, and no network call was issued.
C8_MalformedWindowRejected ==
    (prog = "github" /\ call.fn = "get_total_commits" /\ pc \in {"done", "raised"}
        /\ call.period # <<>> /\ call.period[1] > call.period[2])
        => (raised = "ValidationError" /\ net = <<>>)

PerUserCellOnEmpty == prog = "asana" /\ pc = "done" /\ Empty(created_tasks_df)

FreshSummary(df) ==
    IF ~Empty(df) /\ "assignee" \in df.cols
    THEN [bound |-> TRUE, counts |-> GroupbyCount(df.rows)]
    ELSE Unbound

\* C10 (as claimed): the Summary the per-user aggregation leaves depends on its
\* input alone: it is the one a first call with the same created_tasks_df
\* leaves, whatever calls happened before.
C10_SummaryDependsOnInputAlone ==
    (prog = "asana" /\ pc = "done")
        => tasks_created_by_user = FreshSummary(created_tasks_df)

\* C11: a metrics call with an actor filter returns exactly the in-window
\* entities whose actor is in the filter, and with no filter the in-window
\* entities of every actor.  Stated for a call the upstream holds a matching
\* entity for; the stubs return None, so TLC refutes it.
IsMetricsCall ==
    /\ prog = "github"
    /\ pc = "done"
    /\ call.fn \in {"get_total_commits", "get_commits_by_person"}

InPeriod(c) == call.period = <<>> \/ (call.period[1] <= c.at /\ c.at < call.period[2])

PassesActorFilter(c) ==
    call.actors = <<>> \/ c.actor \in {call.actors[i] : i \in DOMAIN call.actors}

MatchingEntities == {c \in answers : InPeriod(c) /\ PassesActorFilter(c)}

C11_ActorFilterSelectsEntities ==
    (IsMetricsCall /\ MatchingEntities # {})
        => /\ ret.kind = "list"
           /\ {ret.value[i] : i \in DOMAIN ret.value} = MatchingEntities


\* C12 (as stated): get_repo_names asks for the organization first and for
\* the user only when that lookup failed, raises ValueError exactly when both
\* lookups failed, and otherwise returns {"owner": name, "repositories": the
\* names in the order the client lists them}.  Refuted when listing the
\* repositories raises.
IsRepoNamesCall ==
    /\ prog = "github"
    /\ pc \in {"done", "raised"}
    /\ call.fn = "get_repo_names"

BothLookupsFail == answers.org # "ok" /\ answers.user # "ok"

LookupOrder ==
    LET name == call.names[1]
    IN /\ net[1] = [op |-> "get_organization", arg |-> name, out |-> answers.org]
       /\ answers.org = "ok" => \A i \in DOMAIN net : net[i].op # "get_user"
       /\ answers.org # "ok"
              => /\ net[2] = [op |-> "get_user", arg |-> name, out |-> answers.user]
                 /\ \A i \in DOMAIN net : net[i].op = "get_user" => i = 2

ReturnsOwnerMapping ==
    /\ pc = "done"
    /\ raised = "none"
    /\ ret = PyDict([owner |-> call.names[1], repositories |-> answers.repos.names])

C12_ValueErrorOrMapping ==
    IsRepoNamesCall
        => /\ LookupOrder
           /\ raised = "ValueError" <=> BothLookupsFail
           /\ ~BothLookupsFail => ReturnsOwnerMapping

\* C12 (amended): as above, but the mapping is returned only when listing
\* the owner's repositories succeeds; an error raised by the listing reaches
\* the caller unchanged and nothing is returned.
C12_ValueErrorOrMappingOrListingError ==
    IsRepoNamesCall
        => /\ LookupOrder
           /\ raised = "ValueError" <=> BothLookupsFail
           /\ (~BothLookupsFail /\ answers.repos.out = "ok") => ReturnsOwnerMapping
           /\ (~BothLookupsFail /\ answers.repos.out # "ok")
                  => /\ pc = "raised"
                     /\ raised = answers.repos.out
                     /\ ret = Unset
                     /\ net[Len(net)].op = "get_repos"
           /\ BothLookupsFail => \A i \in DOMAIN net : net[i].op # "get_repos"

\* The user fallback: the organization lookup failed, the user lookup
\* succeeded, and two repositories came back in the client's order.
C12_Witness ==
    /\ IsRepoNamesCall
    /\ answers.org # "ok"
    /\ answers.user = "ok"
    /\ ReturnsOwnerMapping
    /\ Len(ret.value.repositories) = 2


\* C15: get_github_contributors never raises and returns a mapping whose keys
\* are exactly the repository names passed in, whichever lookups fail: a name
\* whose get_repo or get_contributors fails maps to the empty list, every
\* other name to its contributors' logins, and an empty list of names gives
\* the empty mapping.  A name passed more than once maps to the outcome of
\* its last lookup.
NamesPassed == {call.names[i] : i \in 1..Len(call.names)}

C15_KeysAreTheNamesPassed ==
    IsContributorsCall
        => /\ raised = "none"
           /\ pc \in {"contributors_loop", "done"}
           /\ pc = "done"
                  => /\ ret.kind = "dict"
                     /\ DOMAIN ret.value = NamesPassed
                     /\ call.names = <<>> => ret.value = EmptyDict
                     /\ \A i \in 1..Len(call.names) :
                            LastOccurrence(i)
                                => ret.value[call.names[i]] =
                                       IF AnswerError(answers[i]) = "none"
                                       THEN answers[i].logins
                                       ELSE <<>>

\* A completed call over three distinct repositories: get_repo fails for the
\* first, listing the contributors fails for the second, and the third maps
\* to its contributors.
C15_Witness ==
    /\ IsContributorsCall
    /\ pc = "done"
    /\ Len(call.names) = 3
    /\ Cardinality(NamesPassed) = 3
    /\ answers[1].get_repo = "rate_limit"
    /\ answers[2].get_contributors = "rate_limit"
    /\ AnswerError(answers[3]) = "none"
    /\ ret.value[call.names[3]] # <<>>


\* C16: create_markdown_file writes the title header once and first, then
\* for each row of the table, in row order, the row's heading, its difficulty
\* line and its description, in that order; generate_project_description is
\* called once per row, for that row, before the row's section is written and
\* its answer is the description written; a table with no rows leaves a file
\* holding only the header.  While the loop runs, and after a completion
\* request raised, the file holds the sections of the rows done so far.
HeaderWritten ==
    /\ prog = "markdown"
    /\ \/ pc \in {"loop", "write", "done"}
       \/ pc = "raised" /\ raised = "openai_error"

IsCompletionCall(c) == c.op = "get_completion"
CompletionCalls == SelectSeq(net, IsCompletionCall)
SectionsWritten == (Len(md_file) - 1) \div 3

C16_HeaderThenSectionsInRowOrder ==
    HeaderWritten
        => /\ md_file[1] = TitleChunk
           /\ \A i \in 2..Len(md_file) : md_file[i].kind # "title"
           /\ Len(md_file) = 1 + 3 * SectionsWritten
           /\ SectionsWritten <= Len(md_df)
           /\ Len(CompletionCalls) \in {SectionsWritten, SectionsWritten + 1}
           /\ \A k \in 1..Len(CompletionCalls) : CompletionCalls[k].arg = md_df[k]
           /\ \A k \in 1..SectionsWritten :
                  SubSeq(md_file, 3 * k - 1, 3 * k + 1)
                      = Section(md_df[k], CompletionCalls[k].out)
           /\ pc = "done"
                  => /\ SectionsWritten = Len(md_df)
                     /\ Len(CompletionCalls) = Len(md_df)
                     /\ md_df = <<>> => md_file = <<TitleChunk>>

\* The finished file of a table of two different rows whose descriptions
\* differ: the header and two sections.
C16_Witness ==
    /\ prog = "markdown"
    /\ pc = "done"
    /\ Len(md_df) = 2
    /\ md_df[1] # md_df[2]
    /\ Len(md_file) = 7
    /\ CompletionCalls[1].out # CompletionCalls[2].out


\* C13: within one run the stages execute strictly in the order Client
\* Provider, Window Fetcher, Relation Fetcher, Aggregator, Presenter.  Every
\* step of a run moves to the next position of its program, or stops at an
\* exception, or starts the next run; and a step writes only what the stage
\* at its position produces, so no stage acts before the one before it has
\* finished or while another is at work.  In the notebook the per-user cell,
\* which counts and displays in one cell, follows the five stages; in main()
\* the sheet is read before create_markdown_file opens the file.
NotebookPositions ==
    <<"start", "token", "fetch_created", "fetch_completed", "comments", "stats",
      "print_stats", "per_user", "done">>

Position(p) == CHOOSE i \in DOMAIN NotebookPositions : NotebookPositions[i] = p

Stage(p) ==
    CASE p = "token" -> "Client Provider"
      [] p \in {"fetch_created", "fetch_completed"} -> "Window Fetcher"
      [] p = "comments" -> "Relation Fetcher"
      [] p = "stats" -> "Aggregator"
      [] p = "print_stats" -> "Presenter"
      [] p = "per_user" -> "per-user cell"
      [] OTHER -> "none"

NotebookStep ==
    /\ \/ pc' = pc
       \/ pc' = "raised"
       \/ pc = "done" /\ pc' = "start"
       \/ pc # "done" /\ Position(pc') = Position(pc) + 1
    /\ <<token, client>>' # <<token, client>> => Stage(pc) = "Client Provider"
    /\ <<created_tasks_df, completed_tasks_df>>' # <<created_tasks_df, completed_tasks_df>>
           => Stage(pc) = "Window Fetcher"
    /\ <<created_tasks_comments_df, completed_tasks_comments_df>>'
               # <<created_tasks_comments_df, completed_tasks_comments_df>>
           => Stage(pc) = "Relation Fetcher"
    /\ stats' # stats => Stage(pc) = "Aggregator"
    /\ stats_out' # stats_out => Stage(pc) = "Presenter"
    /\ <<tasks_created_by_user, user_cell_out>>' # <<tasks_created_by_user, user_cell_out>>
           => Stage(pc) = "per-user cell"

MainOrder ==
    {<<"start", "open">>, <<"open", "header">>, <<"header", "loop">>,
     <<"loop", "write">>, <<"write", "loop">>, <<"loop", "done">>}

MainStep ==
    /\ pc' = pc \/ pc' = "raised" \/ <<pc, pc'>> \in MainOrder
    /\ md_df' # md_df => pc = "start"
    /\ md_file' # md_file => pc \in {"open", "header", "write"}

StageStep ==
    /\ prog = "asana" => NotebookStep
    /\ prog = "markdown" => MainStep

C13_StagesInOrder == [][StageStep]_vars

\* A run that went through every stage: the statistics printed are those
\* computed from the four tables fetched in this run.
C13_Witness ==
    /\ prog = "asana"
    /\ pc = "done"
    /\ Len(net) = 4
    /\ stats_out = stats
    /\ stats[1] > 0
    /\ stats[3] > 0

====
